---- MODULE Spec2Model ----
(***************************************************************************)
(* Model of src/app.py: the media-publishing workflow                      *)
(* (post_to_linkedin_with_media and the functions it calls), the session   *)
(* post history, and the handlers that publish and delete posts.           *)
(*                                                                         *)
(* Python strings are tuples of one-character strings, '' is <<>> and      *)
(* None is the one-element tuple None, so that truthiness (`if not x`) is  *)
(* Truthy(x).  An HTTP exchange is a record: kind "exc" (the call raised)  *)
(* or kind "http" with a status and a body; a body is a record tagged by   *)
(* json: "invalid" (response.json() raises), "list" (valid JSON, not an    *)
(* object) or "dict" with the fields the caller reads, each of which may   *)
(* be Missing.                                                             *)
(***************************************************************************)
EXTENDS Integers, Sequences, FiniteSets, TLC

----------------------------------------------------------------------------
(* Values *)

None == <<"<None>">>
Missing == <<"<missing>">>
Truthy(x) == x # None /\ x # <<>> /\ x # Missing

RECURSIVE Rep(_, _)
Rep(c, n) == IF n = 0 THEN <<>> ELSE <<c>> \o Rep(c, n - 1)

MiB == 1024 * 1024

(* Bounds of the model. *)
MaxHistory == 2
MaxCheckDur == 60

(* Program constants. *)
PreviewLen == 100
VideoLimitMiB == 200
ImageLimitMB == 10
RetryTotal == 3
MaxWait == 120
PollInterval == 3
MinVideoTimeout == 300

----------------------------------------------------------------------------
(* requests.utils.quote(s, safe=''): unreserved characters are kept, every *)
(* other character becomes %XX.                                            *)

Unreserved ==
    {"a", "b", "c", "p", "u", "x", "A", "F", "0", "1", "2", "3", "5", "_", ".", "-", "~"}

PercentCode(c) ==
    CASE c = ":" -> <<"%", "3", "A">>
      [] c = "/" -> <<"%", "2", "F">>
      [] c = "%" -> <<"%", "2", "5">>
      [] c = " " -> <<"%", "2", "0">>

quote_Identity(s) == s

RECURSIVE quote(_)
quote(s) ==
    IF s = <<>> THEN <<>>
    ELSE (IF Head(s) \in Unreserved THEN <<Head(s)>> ELSE PercentCode(Head(s)))
         \o quote(Tail(s))

FeedPrefix == <<"https://www.linkedin.com/feed/update/">>

get_linkedin_post_url(post_urn) ==
    IF ~Truthy(post_urn) THEN None ELSE FeedPrefix \o quote(post_urn)

ActivityPrefix == <<"https://www.linkedin.com/feed/update/urn:li:activity:">>

RECURSIVE LastSegment_First(_)
LastSegment_First(s) ==
    IF Len(s) = 0 \/ Head(s) = ":" THEN <<>>
    ELSE <<Head(s)>> \o LastSegment_First(Tail(s))

(* post_urn.split(':')[-1] *)
RECURSIVE LastSegment(_)
LastSegment(s) ==
    IF Len(s) = 0 \/ s[Len(s)] = ":" THEN <<>>
    ELSE Append(LastSegment(SubSeq(s, 1, Len(s) - 1)), s[Len(s)])

get_linkedin_activity_url(post_urn) ==
    IF ~Truthy(post_urn) THEN None ELSE ActivityPrefix \o LastSegment(post_urn)

Preview_Inclusive(text) ==
    IF Len(text) >= PreviewLen
    THEN SubSeq(text, 1, PreviewLen) \o <<".", ".", ".">>
    ELSE text

(* text[:100] + '...' if len(text) > 100 else text *)
Preview(text) ==
    IF Len(text) > PreviewLen
    THEN SubSeq(text, 1, PreviewLen) \o <<".", ".", ".">>
    ELSE text

----------------------------------------------------------------------------
(* The retrying HTTP session (linkedin_session).  One request is a         *)
(* sequence of attempts; an attempt that raises, or that is answered with  *)
(* a status of the force list, is retried while retries remain, and when   *)
(* they are used up the request raises.                                    *)

status_forcelist == {429, 500, 502, 503, 504}

Exc == [kind |-> "exc", status |-> 0, body |-> [json |-> "invalid"]]
Http(s, b) == [kind |-> "http", status |-> s, body |-> b]

Retriable(r) == r.kind = "exc" \/ r.status \in status_forcelist

RECURSIVE AdapterSend(_, _)
AdapterSend(attempts, retries_left) ==
    IF ~Retriable(Head(attempts)) THEN Head(attempts)
    ELSE IF retries_left = 0 THEN Exc
    ELSE AdapterSend(Tail(attempts), retries_left - 1)

SessionRequest(attempts) == AdapterSend(attempts, RetryTotal)

(* The attempts the server and the network can answer one request with:    *)
(* retried attempts followed by a final one.                               *)
RetriedAttempt == {Exc, Http(503, [json |-> "invalid"])}

RetriedPrefixes(n) == {[i \in 1..k |-> r] : k \in 0..n, r \in RetriedAttempt}

AttemptSeqs(finals) ==
    {p \o <<f>> : p \in RetriedPrefixes(RetryTotal), f \in finals}
    \cup {[i \in 1..(RetryTotal + 1) |-> r] : r \in RetriedAttempt}

(* What linkedin_session can hand its caller when the final answers are    *)
(* `finals`.                                                               *)
SessionAnswers(finals) == {SessionRequest(a) : a \in AttemptSeqs(finals)}

----------------------------------------------------------------------------
(* What the collaborators can answer at each call site. *)

BadBodies == {[json |-> "invalid"], [json |-> "list"]}

UserId == <<"p", "1">>
UserinfoBodies == BadBodies \cup {[json |-> "dict", sub |-> v] : v \in {Missing, <<>>, UserId}}
MeBodies == BadBodies \cup {[json |-> "dict", id |-> v] : v \in {Missing, <<>>, UserId}}

UploadUrl == <<"https://upload/">>
Asset1 == <<"u", ":", "a", ":", "1">>
RegisterBodies ==
    BadBodies
    \cup {[json |-> "dict", uploadUrl |-> UploadUrl, asset |-> a] : a \in {Asset1, None, Missing}}
    \cup {[json |-> "dict", uploadUrl |-> u, asset |-> Asset1] : u \in {<<>>, None, Missing}}

RecipeLists ==
    {<<>>, <<"">>, <<"AVAILABLE">>, <<"ERROR">>, <<"PROCESSING">>,
     <<"", "AVAILABLE">>, <<"PROCESSING", "ERROR">>}
AssetBodies == BadBodies \cup {[json |-> "dict", recipes |-> r] : r \in RecipeLists}

PostIds == {<<"u", ":", "1">>, <<"u", ":", "2">>}
CreateBodies == BadBodies \cup {[json |-> "dict", id |-> v] : v \in PostIds \cup {Missing, <<>>}}

(* A final answer: 200 or 201 with one of the bodies, or a client error. *)
Responses(oks, bodies) ==
    {Http(s, b) : s \in oks, b \in bodies} \cup {Http(401, [json |-> "invalid"])}

ConnectionAnswers == SessionAnswers(Responses({200, 201}, {[json |-> "invalid"]}))
UserinfoAnswers == SessionAnswers(Responses({200}, UserinfoBodies))
MeAnswers == SessionAnswers(Responses({200}, MeBodies))
RegisterAnswers == SessionAnswers(Responses({200, 201}, RegisterBodies))
AssetAnswers == SessionAnswers(Responses({200}, AssetBodies))
CreateAnswers == SessionAnswers(Responses({200, 201}, CreateBodies))

DeleteAnswers ==
    SessionAnswers({Http(s, [json |-> "invalid"]) : s \in {200, 201, 204, 404, 403, 401}})

(* The two transfers use requests.put directly, not the retrying session. *)
PutResponses == {Exc} \cup {Http(s, [json |-> "invalid"]) : s \in {200, 201, 401, 503}}

----------------------------------------------------------------------------
(* The functions of the upload protocol, each on the response it gets. *)

Ok2xx(resp) == resp.kind = "http" /\ resp.status \in {200, 201}

check_linkedin_connection_Any2xx(access_token, resp) ==
    IF ~Truthy(access_token) THEN FALSE ELSE Ok2xx(resp)

check_linkedin_connection_Unguarded(access_token, resp) ==
    resp.kind = "http" /\ resp.status = 200

(* check_linkedin_connection: an empty token returns False with no call. *)
check_linkedin_connection(access_token, resp) ==
    IF ~Truthy(access_token) THEN FALSE
    ELSE resp.kind = "http" /\ resp.status = 200

PersonUrn(user_id) == <<"urn:li:person:">> \o user_id

UserinfoId(resp) ==
    IF resp.kind = "http" /\ resp.status = 200 /\ resp.body.json = "dict"
    THEN resp.body.sub ELSE Missing

MeId(resp) ==
    IF resp.kind = "http" /\ resp.status = 200 /\ resp.body.json = "dict"
    THEN resp.body.id ELSE Missing

get_user_profile_Unchecked(resp1, resp2) ==
    IF Truthy(UserinfoId(resp1)) THEN PersonUrn(UserinfoId(resp1))
    ELSE PersonUrn(MeId(resp2))

(* get_user_profile: /v2/userinfo first, /v2/me when that gave no id. *)
get_user_profile(resp1, resp2) ==
    LET id1 == UserinfoId(resp1)
        id2 == MeId(resp2)
    IN  IF Truthy(id1) THEN PersonUrn(id1)
        ELSE IF Truthy(id2) THEN PersonUrn(id2)
        ELSE None

NoUpload == [upload_url |-> None, asset |-> None]

(* register_image_upload / register_video_upload: (upload_url, asset), or  *)
(* (None, None) on a status other than 200/201 and on any exception, a     *)
(* missing key of the response included.                                   *)
register_upload(resp) ==
    IF Ok2xx(resp) /\ resp.body.json = "dict"
       /\ resp.body.uploadUrl # Missing /\ resp.body.asset # Missing
    THEN [upload_url |-> resp.body.uploadUrl, asset |-> resp.body.asset]
    ELSE NoUpload

(* upload_image_to_linkedin / upload_video_to_linkedin *)
upload_to_linkedin(resp) == Ok2xx(resp)

VideoUploadTimeout_Min(file_size) ==
    LET t == (file_size * 5) \div MiB
    IN  IF t < MinVideoTimeout THEN t ELSE MinVideoTimeout

(* max(300, int(file_size_mb * 5)) *)
VideoUploadTimeout(file_size) ==
    LET t == (file_size * 5) \div MiB
    IN  IF t > MinVideoTimeout THEN t ELSE MinVideoTimeout

RECURSIVE FirstStatus(_)
FirstStatus(recipes) ==
    IF recipes = <<>> THEN "PROCESSING"
    ELSE IF Head(recipes) # "" THEN Head(recipes)
    ELSE FirstStatus(Tail(recipes))

(* check_video_status: asset_urn.split raises on None, inside the try. *)
StatusCallMade(asset_urn) == asset_urn # None

check_video_status(asset_urn, resp) ==
    IF ~StatusCallMade(asset_urn) THEN "PROCESSING"
    ELSE IF resp.kind = "http" /\ resp.status = 200 /\ resp.body.json = "dict"
         THEN FirstStatus(resp.body.recipes)
         ELSE "PROCESSING"

----------------------------------------------------------------------------
(* The create-post POST seen from the server.  POST is one of the retried  *)
(* methods, so each attempt reaches the server anew: an attempt answered   *)
(* 200/201 has created a post, one answered with a client error has not,   *)
(* and one that the adapter retries (a status of the force list from a     *)
(* gateway in front of the service, a read timeout after the request was   *)
(* sent) may or may not have created one.                                  *)
Attempt(answer, posted) == [answer |-> answer, posted |-> posted]

PostOutcomes(answer) ==
    IF Retriable(answer) THEN {Attempt(answer, b) : b \in BOOLEAN}
    ELSE {Attempt(answer, Ok2xx(answer))}

RetriedPosts(n) ==
    UNION {[1..k -> PostOutcomes(x)] : k \in 0..n, x \in RetriedAttempt}

CreateAttemptSeqs ==
    {p \o <<f>> : p \in RetriedPosts(RetryTotal),
                  f \in UNION {PostOutcomes(r) : r \in Responses({200, 201}, CreateBodies)}}
    \cup {p \in RetriedPosts(RetryTotal + 1) : Len(p) = RetryTotal + 1}

Answers(attempts) == [i \in 1..Len(attempts) |-> attempts[i].answer]

(* The posts the attempts the adapter sends create on the server. *)
RECURSIVE ServerPosts(_, _)
ServerPosts(attempts, retries_left) ==
    LET here == IF Head(attempts).posted THEN 1 ELSE 0
    IN  IF ~Retriable(Head(attempts).answer) \/ retries_left = 0 THEN here
        ELSE here + ServerPosts(Tail(attempts), retries_left - 1)

(* One create-post request: what the session hands the caller, and the    *)
(* posts made on the server meanwhile.                                     *)
CreateExchanges ==
    {[resp |-> SessionRequest(Answers(a)), posted |-> ServerPosts(a, RetryTotal)] :
        a \in CreateAttemptSeqs}

----------------------------------------------------------------------------
(* create_text_only_post, create_post_with_image, create_post_with_video:  *)
(* the three differ in the media category and asset sent and in the type   *)
(* recorded; what they do with the response is the same.                   *)

Success(result) == [state |-> "returned", ok |-> TRUE, value |-> result]
Failure(reason) == [state |-> "returned", ok |-> FALSE, value |-> reason]
NoRet == [state |-> "pending", ok |-> FALSE, value |-> [reason |-> "pending"]]

ConnectionFailed == [reason |-> "Connection failed. Check internet and token."]
ProfileFailed == [reason |-> "Could not get user profile."]
VideoTooLarge == [reason |-> "Video exceeds 200MB limit"]
FailedStatus_NoBody(resp) == [reason |-> "Failed", status |-> resp.status, text |-> <<>>]
FailedStatus(resp) == [reason |-> "Failed", status |-> resp.status, text |-> resp.body]
Raised == [reason |-> "str(e)"]

(* result.get('id', '') *)
CreatedUrn(resp) ==
    IF Ok2xx(resp) /\ resp.body.json = "dict" /\ resp.body.id # Missing
    THEN resp.body.id ELSE <<>>

CreateResult_NoExcept(resp) ==
    IF Ok2xx(resp)
    THEN IF resp.body.json = "dict" THEN Success(resp.body)
         ELSE [state |-> "raised", ok |-> FALSE, value |-> Raised]
    ELSE IF resp.kind = "http" THEN Failure(FailedStatus(resp))
    ELSE [state |-> "raised", ok |-> FALSE, value |-> Raised]

CreateResult(resp) ==
    IF Ok2xx(resp)
    THEN IF resp.body.json = "dict" THEN Success(resp.body) ELSE Failure(Raised)
    ELSE IF resp.kind = "http" THEN Failure(FailedStatus(resp)) ELSE Failure(Raised)

(* time.strftime reads the wall clock; the session's minute is one value. *)
Stamp == <<"2026-01-01 00:00">>

HistoryRecord(post_urn, text, type) ==
    [urn |-> post_urn, url |-> get_linkedin_post_url(post_urn),
     text |-> Preview(text), type |-> type, time |-> Stamp]

Recorded_Unguarded(resp) == TRUE

(* `if post_urn:` guards the append and the two last_post assignments. *)
Recorded(resp) == Truthy(CreatedUrn(resp))

HistoryAfterCreate_Replace(history, resp, text, type) ==
    IF Recorded(resp)
    THEN <<HistoryRecord(CreatedUrn(resp), text, type)>>
    ELSE history

HistoryAfterCreate(history, resp, text, type) ==
    IF Recorded(resp)
    THEN Append(history, HistoryRecord(CreatedUrn(resp), text, type))
    ELSE history

----------------------------------------------------------------------------
(* State *)

VARIABLES
    (* st.session_state *)
    post_history, last_post_urn, last_post_url, generated_post, post_ready,
    uploaded_media, media_type, show_success, linkedin_token,
    (* the identifier the delete handler has just deleted, None otherwise  *)
    deleted_urn,
    (* one invocation of post_to_linkedin_with_media *)
    pc, args, user_urn, upload_url, asset_urn,
    (* wait_for_video_processing *)
    start_time, now, check_count, status, processing_success,
    (* the collaborator calls of the invocation other than the status      *)
    (* checks, how its wait ended, and its return value                    *)
    calls, wait_end, ret,
    (* one call of generate_with_retry: its arguments and what it did      *)
    gen,
    (* one direct call of a helper function: which, its argument, its      *)
    (* result                                                              *)
    helper,
    (* the request of a delete handler: the identifier it is deleting and  *)
    (* how far it has got                                                  *)
    deleter

session == <<post_history, last_post_urn, last_post_url, generated_post, post_ready,
             uploaded_media, media_type, show_success, linkedin_token, deleted_urn>>
locals == <<args, user_urn, upload_url, asset_urn>>
waitvars == <<start_time, now, check_count, status, processing_success>>
vars == <<session, pc, locals, waitvars, calls, wait_end, ret, gen, helper, deleter>>

NoFile == [size |-> -1]
File(n) == [size |-> n]
NoArgs == [access_token |-> <<>>, text |-> <<>>, media_file |-> NoFile, media_type |-> ""]

Call(op, kind, asset, result) == [op |-> op, kind |-> kind, asset |-> asset, result |-> result]
CreateCall(kind, asset, result, posted) ==
    [op |-> "create", kind |-> kind, asset |-> asset, result |-> result, posted |-> posted]

(* init_session_state, and no invocation in progress. *)
SessionDefaults ==
    /\ post_history = <<>>
    /\ last_post_urn = None
    /\ last_post_url = None
    /\ generated_post = <<>>
    /\ post_ready = FALSE
    /\ uploaded_media = NoFile
    /\ media_type = ""
    /\ show_success = FALSE
    /\ linkedin_token = <<>>
    /\ deleted_urn = None

NoGeneration == [state |-> "none"]
NoHelper == [state |-> "none"]
NoDeleter == [state |-> "none"]

NoInvocation ==
    /\ user_urn = None
    /\ upload_url = None
    /\ asset_urn = None
    /\ start_time = 0
    /\ now = 0
    /\ check_count = 0
    /\ status = ""
    /\ processing_success = "unset"
    /\ calls = <<>>
    /\ wait_end = ""
    /\ ret = NoRet

----------------------------------------------------------------------------
(* post_to_linkedin_with_media, one action per collaborator call. *)

Returns_FallsThrough(r) == pc' = "create_text" /\ ret' = r

Returns(r) == pc' = "returned" /\ ret' = r
Goes(target) == pc' = target /\ ret' = ret

(* lines 876-879 *)
CheckConnection ==
    /\ pc = "check_connection"
    /\ \E a \in ConnectionAnswers :
         /\ calls' = IF Truthy(args.access_token)
                     THEN Append(calls, Call("connection", "", None, a))
                     ELSE calls
         /\ IF check_linkedin_connection(args.access_token, a)
            THEN Goes("get_profile")
            ELSE Returns(Failure(ConnectionFailed))
    /\ UNCHANGED <<gen, helper, deleter, session, locals, waitvars, wait_end>>

(* The requests get_user_profile makes: the second only when the first    *)
(* gave no id.                                                             *)
ProfileCalls(a1) ==
    IF Truthy(UserinfoId(a1))
    THEN <<Call("identity", "userinfo", None, "done")>>
    ELSE <<Call("identity", "userinfo", None, "done"), Call("identity", "me", None, "done")>>

(* lines 881-885 *)
GetProfile ==
    /\ pc = "get_profile"
    /\ \E a1 \in UserinfoAnswers, a2 \in MeAnswers :
         /\ user_urn' = get_user_profile(a1, a2)
         /\ calls' = calls \o ProfileCalls(a1)
         /\ IF Truthy(user_urn')
            THEN Goes("dispatch")
            ELSE Returns(Failure(ProfileFailed))
    /\ UNCHANGED <<gen, helper, deleter, session, args, upload_url, asset_urn, waitvars, wait_end>>

VideoTooBig_Inclusive(file_size) == file_size >= VideoLimitMiB * MiB

VideoTooBig(file_size) == file_size > VideoLimitMiB * MiB

DispatchTarget_KindOnly(a) ==
    IF a.media_type = "image" THEN "register_image"
    ELSE IF a.media_type = "video"
         THEN IF VideoTooBig(a.media_file.size) THEN "too_large" ELSE "register_video"
    ELSE "create_text"

(* lines 887, 893, 916-924, 954: which path the media selects. *)
DispatchTarget(a) ==
    IF a.media_file = NoFile \/ a.media_type = "" THEN "create_text"
    ELSE IF a.media_type = "image" THEN "register_image"
    ELSE IF a.media_type = "video"
         THEN IF VideoTooBig(a.media_file.size) THEN "too_large" ELSE "register_video"
    ELSE "create_text"

Dispatch ==
    /\ pc = "dispatch"
    /\ IF DispatchTarget(args) = "too_large"
       THEN Returns(Failure(VideoTooLarge))
       ELSE Goes(DispatchTarget(args))
    /\ UNCHANGED <<gen, helper, deleter, session, locals, waitvars, calls, wait_end>>

(* `if not upload_url:` after a registration: text only, else transfer. *)
RegisterPc(kind) == IF kind = "image" THEN "register_image" ELSE "register_video"
UploadPc(kind) == IF kind = "image" THEN "upload_image" ELSE "upload_video"

AfterRegister_NoFallback(url, kind) == UploadPc(kind)

AfterRegister(url, kind) == IF Truthy(url) THEN UploadPc(kind) ELSE "create_text"

(* lines 894-900 (image) and 926-932 (video) *)
Register(kind) ==
    /\ pc = RegisterPc(kind)
    /\ \E a \in RegisterAnswers :
         LET r == register_upload(a)
         IN  /\ upload_url' = r.upload_url
             /\ asset_urn' = r.asset
             /\ calls' = Append(calls, Call("register", kind, None,
                                            IF Truthy(r.upload_url) THEN "done" ELSE "failed"))
             /\ Goes(AfterRegister(r.upload_url, kind))
    /\ UNCHANGED <<gen, helper, deleter, session, args, user_urn, waitvars, wait_end>>

RegisterImage == Register("image")
RegisterVideo == Register("video")

(* `if not upload_...:` after a transfer. *)
AfterUpload_NoFallback(ok, kind) ==
    IF kind = "image" THEN "create_image" ELSE "wait_video"

AfterUpload_Retry(ok, kind) ==
    IF ~ok THEN UploadPc(kind)
    ELSE IF kind = "image" THEN "create_image" ELSE "wait_video"

AfterUpload(ok, kind) ==
    IF ~ok THEN "create_text"
    ELSE IF kind = "image" THEN "create_image" ELSE "wait_video"

(* lines 902-909 (image) and 934-945 (video) *)
Upload(kind) ==
    /\ pc = UploadPc(kind)
    /\ \E resp \in PutResponses :
         LET ok == upload_to_linkedin(resp)
         IN  /\ calls' = Append(calls, Call("transfer", kind, upload_url,
                                            IF ok THEN "done" ELSE "failed"))
             /\ Goes(AfterUpload(ok, kind))
    /\ UNCHANGED <<gen, helper, deleter, session, locals, waitvars, wait_end>>

UploadImage == Upload("image")
UploadVideo == Upload("video")

(* How long one status check can take: no time, or MaxCheckDur seconds    *)
(* (a slow answer, or the session's retries and their backoff).            *)
CheckDurs == {0, MaxCheckDur}

Waiting_Inclusive(t0, t, max_wait) == t - t0 <= max_wait

(* `while time.time() - start_time < max_wait` *)
Waiting(t0, t, max_wait) == t - t0 < max_wait

WaitReturn_ErrorIgnored(observed) == IF observed = "AVAILABLE" THEN "True" ELSE ""

(* The value wait_for_video_processing returns for an observed status     *)
(* ("" while it keeps polling), and the value it returns at the deadline.  *)
WaitReturn(observed) ==
    IF observed = "AVAILABLE" THEN "True"
    ELSE IF observed = "ERROR" THEN "False"
    ELSE ""

WaitTimeoutReturn_Signal == "Timeout"

WaitTimeoutReturn == "True"

(* The status requests made so far by the wait in progress. *)
StatusCalls == IF StatusCallMade(asset_urn) THEN check_count ELSE 0

AfterWait_Gated(value) == IF value = "True" THEN "create_video" ELSE "create_text"

(* lines 947-950: the value returned is not read. *)
AfterWait(value) == "create_video"

(* wait_for_video_processing returns: its locals are gone, the caller      *)
(* keeps the value returned.                                               *)
WaitReturns(value, ended) ==
    /\ processing_success' = value
    /\ wait_end' = ended
    /\ start_time' = 0
    /\ now' = 0
    /\ check_count' = 0
    /\ status' = ""
    /\ Goes(AfterWait(value))

(* lines 777-791: one iteration of the poll loop, a check and, unless it   *)
(* returned, the sleep.  The wait starts when the transfer succeeded       *)
(* (start_time = now = 0).                                                 *)
WaitIteration ==
    /\ pc = "wait_video"
    /\ Waiting(start_time, now, MaxWait)
    /\ \E a \in AssetAnswers, d \in CheckDurs :
         LET observed == check_video_status(asset_urn, a)
         IN  IF WaitReturn(observed) # ""
             THEN WaitReturns(WaitReturn(observed), observed)
             ELSE /\ status' = observed
                  /\ check_count' = check_count + 1
                  /\ now' = now + d + PollInterval
                  /\ Goes("wait_video")
                  /\ UNCHANGED <<start_time, processing_success, wait_end>>
    /\ UNCHANGED <<gen, helper, deleter, session, locals, calls>>

(* lines 793-794: the deadline passed. *)
WaitTimeout ==
    /\ pc = "wait_video"
    /\ ~Waiting(start_time, now, MaxWait)
    /\ WaitReturns(WaitTimeoutReturn, "TIMED_OUT")
    /\ UNCHANGED <<gen, helper, deleter, session, locals, calls>>

NoAsset == <<"<no media>">>

(* The create-post call of each path: media category, asset, recorded type. *)
CreateCategory(at) ==
    IF at = "create_image" THEN "IMAGE"
    ELSE IF at = "create_video" THEN "VIDEO" ELSE "NONE"

CreateAsset_Always(at, asset) == asset

CreateAsset(at, asset) == IF at = "create_text" THEN NoAsset ELSE asset

CreateType_Requested(at) ==
    IF args.media_file # NoFile /\ args.media_type \in {"image", "video"}
    THEN args.media_type ELSE "text"

CreateType(at) ==
    IF at = "create_image" THEN "image"
    ELSE IF at = "create_video" THEN "video" ELSE "text"

(* create_text_only_post (835-871), create_post_with_image (661-698),      *)
(* create_post_with_video (796-833), and the return of their result.       *)
CreatePost(at) ==
    /\ pc = at
    /\ \E x \in CreateExchanges :
         LET resp == x.resp
         IN  /\ calls' = Append(calls, CreateCall(CreateCategory(at),
                                                  CreateAsset(at, asset_urn), resp, x.posted))
             /\ post_history' = HistoryAfterCreate(post_history, resp, args.text,
                                                   CreateType(at))
             /\ last_post_urn' = IF Recorded(resp) THEN CreatedUrn(resp) ELSE last_post_urn
             /\ last_post_url' = IF Recorded(resp)
                                 THEN get_linkedin_post_url(CreatedUrn(resp))
                                 ELSE last_post_url
             /\ Returns(CreateResult(resp))
    /\ UNCHANGED <<gen, helper, deleter, generated_post, post_ready, uploaded_media, media_type,
                   show_success, linkedin_token, deleted_urn, locals, waitvars, wait_end>>

CreateTextPost == CreatePost("create_text")
CreateImagePost == CreatePost("create_image")
CreateVideoPost == CreatePost("create_video")

PublishStep ==
    \/ CheckConnection
    \/ GetProfile
    \/ Dispatch
    \/ RegisterImage
    \/ RegisterVideo
    \/ UploadImage
    \/ UploadVideo
    \/ WaitIteration
    \/ WaitTimeout
    \/ CreateTextPost
    \/ CreateImagePost
    \/ CreateVideoPost

----------------------------------------------------------------------------
(* The function called directly, in a fresh session, with any arguments. *)

Token == <<"x">>
ShortText == <<"a", "b">>
LongText == Rep("a", PreviewLen + 1)

CallTokens == {<<>>, Token}
CallTexts == {<<>>, ShortText, LongText}
CallFiles ==
    {NoFile, File(0), File(ImageLimitMB * MiB + 1),
     File(VideoLimitMiB * MiB), File(VideoLimitMiB * MiB + 1)}
CallTypes == {"", "image", "video", "audio"}

InitCall ==
    /\ SessionDefaults
    /\ NoInvocation
    /\ gen = NoGeneration
    /\ helper = NoHelper
    /\ deleter = NoDeleter
    /\ pc = "check_connection"
    /\ args \in [access_token : CallTokens, text : CallTexts,
                 media_file : CallFiles, media_type : CallTypes]

SpecCall == InitCall /\ [][PublishStep]_vars

----------------------------------------------------------------------------
(* generate_with_retry(agent, prompt, max_retries): the agent's answers   *)
(* are a sequence, one per call.                                           *)

AgentOk(content) == [kind |-> "ok", content |-> content, msg |-> <<>>]
AgentError(msg) == [kind |-> "error", content |-> None, msg |-> msg]

(* str(e).lower(), and `"rate" in error_msg or "limit" in error_msg` *)
Lower(c) ==
    CASE c = "R" -> "r"
      [] c = "L" -> "l"
      [] c = "T" -> "t"
      [] OTHER -> c

LowerStr(s) == [i \in 1..Len(s) |-> Lower(s[i])]

Contains(s, sub) ==
    \E i \in 0..(Len(s) - Len(sub)) : SubSeq(s, i + 1, i + Len(sub)) = sub

RateLimited_Always(o) == TRUE

RateLimited(o) ==
    LET error_msg == LowerStr(o.msg)
    IN  Contains(error_msg, <<"r", "a", "t", "e">>)
        \/ Contains(error_msg, <<"l", "i", "m", "i", "t">>)

(* Messages an agent failure can carry. *)
RateMsg == <<"R", "a", "t", "e", " ", "e", "x", "c", "e", "e", "d", "e", "d">>
LimitMsg == <<"4", "2", "9", " ", "l", "i", "m", "i", "t">>
OtherMsg == <<"T", "i", "m", "e", "o", "u", "t">>

Pow2_Constant(n) == 1

RECURSIVE Pow2(_)
Pow2(n) == IF n = 0 THEN 1 ELSE 2 * Pow2(n - 1)

RECURSIVE RetryLoop(_, _, _, _)
RetryLoop(answers, attempt, max_retries, sleeps) ==
    IF attempt >= max_retries
    THEN [kind |-> "return", value |-> None, agent_calls |-> attempt, sleeps |-> sleeps]
    ELSE LET o == answers[attempt + 1]
         IN  IF o.kind = "ok"
             THEN [kind |-> "return", value |-> o.content,
                   agent_calls |-> attempt + 1, sleeps |-> sleeps]
             ELSE IF RateLimited(o) /\ attempt < max_retries - 1
             THEN RetryLoop(answers, attempt + 1, max_retries,
                            Append(sleeps, Pow2(attempt)))
             ELSE [kind |-> "raise", value |-> o.msg,
                   agent_calls |-> attempt + 1, sleeps |-> sleeps]

generate_with_retry(answers, max_retries) == RetryLoop(answers, 0, max_retries, <<>>)

DefaultMaxRetries == 3

----------------------------------------------------------------------------
(* delete_linkedin_post *)

delete_linkedin_post_Any2xx(access_token, post_urn, resp) ==
    IF ~Truthy(access_token) \/ ~Truthy(post_urn)
    THEN [ok |-> FALSE, msg |-> "Missing token or post URN"]
    ELSE IF resp.kind = "exc" THEN [ok |-> FALSE, msg |-> "Error"]
    ELSE [ok |-> resp.status \in 200..299, msg |-> "Post deleted successfully!"]

delete_linkedin_post(access_token, post_urn, resp) ==
    IF ~Truthy(access_token) \/ ~Truthy(post_urn)
    THEN [ok |-> FALSE, msg |-> "Missing token or post URN"]
    ELSE IF resp.kind = "exc" THEN [ok |-> FALSE, msg |-> "Error"]
    ELSE IF resp.status \in {200, 204}
    THEN [ok |-> TRUE, msg |-> "Post deleted successfully!"]
    ELSE IF resp.status = 404
    THEN [ok |-> FALSE, msg |-> "Post not found. Check the URN."]
    ELSE IF resp.status = 403
    THEN [ok |-> FALSE, msg |-> "Permission denied."]
    ELSE [ok |-> FALSE, msg |-> "Delete failed"]

RECURSIVE WithoutUrn_FirstOnly(_, _)
WithoutUrn_FirstOnly(history, urn) ==
    IF history = <<>> THEN <<>>
    ELSE IF Head(history).urn # urn
         THEN <<Head(history)>> \o WithoutUrn_FirstOnly(Tail(history), urn)
         ELSE Tail(history)

(* [p for p in post_history if p['urn'] != urn] *)
RECURSIVE WithoutUrn(_, _)
WithoutUrn(history, urn) ==
    IF history = <<>> THEN <<>>
    ELSE IF Head(history).urn # urn
         THEN <<Head(history)>> \o WithoutUrn(Tail(history), urn)
         ELSE WithoutUrn(Tail(history), urn)

----------------------------------------------------------------------------
(* The handlers of the page. *)

Whitespace == <<" ">>

RECURSIVE LStrip(_)
LStrip(s) == IF s # <<>> /\ Head(s) = " " THEN LStrip(Tail(s)) ELSE s

RECURSIVE RStrip(_)
RStrip(s) ==
    IF s # <<>> /\ s[Len(s)] = " " THEN RStrip(SubSeq(s, 1, Len(s) - 1)) ELSE s

Strip(s) == RStrip(LStrip(s))

UiTexts == {ShortText}
(* The agent's answers to one generation: rate-limit errors, then a text  *)
(* or another error.                                                       *)
AgentFinals == {AgentOk(t) : t \in UiTexts \cup {<<>>}} \cup {AgentError(OtherMsg)}
AgentAnswers ==
    {[i \in 1..k |-> AgentError(RateMsg)] \o <<f>> :
        k \in 0..(DefaultMaxRetries - 1), f \in AgentFinals}
    \cup {[i \in 1..DefaultMaxRetries |-> AgentError(RateMsg)]}

(* The create form is shown unless the success box is (line 1100). *)
FormShown == ~(show_success /\ Truthy(last_post_url))
DraftShown == FormShown /\ post_ready /\ Truthy(generated_post)
Idle == pc = "idle"

(* lines 1022-1048, the LinkedIn token of the sidebar. *)
Initialize(token_input) ==
    /\ Idle
    /\ linkedin_token' = token_input
    /\ deleted_urn' = None
    /\ deleter' = NoDeleter
    /\ UNCHANGED <<gen, helper, post_history, last_post_urn, last_post_url, generated_post,
                   post_ready, uploaded_media, media_type, show_success,
                   pc, locals, waitvars, calls, wait_end, ret>>

(* lines 1169-1204: the media radio and the two uploaders. *)
AcceptedUpload(option, file) ==
    /\ option \in {"image", "video"}
    /\ file # NoFile
    /\ IF option = "image" THEN ~(file.size > ImageLimitMB * MiB)
       ELSE ~(file.size > VideoLimitMiB * MiB)

SelectMedia(option, file) ==
    /\ Idle
    /\ FormShown
    /\ uploaded_media' = IF AcceptedUpload(option, file) THEN file ELSE NoFile
    /\ media_type' = IF AcceptedUpload(option, file) THEN option ELSE ""
    /\ deleted_urn' = None
    /\ deleter' = NoDeleter
    /\ UNCHANGED <<gen, helper, post_history, last_post_urn, last_post_url, generated_post,
                   post_ready, show_success, linkedin_token,
                   pc, locals, waitvars, calls, wait_end, ret>>

(* lines 1221-1248 *)
GeneratePost(answers) ==
    /\ Idle
    /\ FormShown
    /\ LET r == generate_with_retry(answers, DefaultMaxRetries)
       IN  IF r.kind = "return" /\ Truthy(r.value)
           THEN generated_post' = r.value /\ post_ready' = TRUE
           ELSE UNCHANGED <<generated_post, post_ready>>
    /\ deleted_urn' = None
    /\ deleter' = NoDeleter
    /\ UNCHANGED <<gen, helper, post_history, last_post_urn, last_post_url, uploaded_media,
                   media_type, show_success, linkedin_token,
                   pc, locals, waitvars, calls, wait_end, ret>>

(* lines 1259-1261 *)
EditPost(edited_post) ==
    /\ Idle
    /\ DraftShown
    /\ generated_post' = edited_post
    /\ deleted_urn' = None
    /\ deleter' = NoDeleter
    /\ UNCHANGED <<gen, helper, post_history, last_post_urn, last_post_url, post_ready,
                   uploaded_media, media_type, show_success, linkedin_token,
                   pc, locals, waitvars, calls, wait_end, ret>>

(* reset_post_state, lines 70-76 *)
reset_post_state ==
    /\ post_ready' = FALSE
    /\ generated_post' = <<>>
    /\ uploaded_media' = NoFile
    /\ media_type' = ""
    /\ last_post_url' = None
    /\ last_post_urn' = None

(* lines 1251-1253 *)
ResetButton ==
    /\ Idle
    /\ FormShown
    /\ reset_post_state
    /\ deleted_urn' = None
    /\ deleter' = NoDeleter
    /\ UNCHANGED <<gen, helper, post_history, show_success, linkedin_token,
                   pc, locals, waitvars, calls, wait_end, ret>>

(* lines 1127-1130 *)
CreateNewPost ==
    /\ Idle
    /\ ~FormShown
    /\ show_success' = FALSE
    /\ reset_post_state
    /\ deleted_urn' = None
    /\ deleter' = NoDeleter
    /\ UNCHANGED <<gen, helper, post_history, linkedin_token,
                   pc, locals, waitvars, calls, wait_end, ret>>

(* lines 1292-1295 *)
Regenerate ==
    /\ Idle
    /\ DraftShown
    /\ post_ready' = FALSE
    /\ generated_post' = <<>>
    /\ deleted_urn' = None
    /\ deleter' = NoDeleter
    /\ UNCHANGED <<gen, helper, post_history, last_post_urn, last_post_url, uploaded_media,
                   media_type, show_success, linkedin_token,
                   pc, locals, waitvars, calls, wait_end, ret>>

(* lines 1271-1282: the two checks of the handler, then the call. *)
PublishAllowed == Truthy(linkedin_token) /\ Truthy(Strip(generated_post))

PublishButton ==
    /\ Idle
    /\ DraftShown
    /\ PublishAllowed
    /\ Len(post_history) < MaxHistory
    /\ pc' = "check_connection"
    /\ args' = [access_token |-> linkedin_token, text |-> generated_post,
                media_file |-> uploaded_media, media_type |-> media_type]
    /\ deleted_urn' = None
    /\ deleter' = NoDeleter
    /\ UNCHANGED <<gen, helper, post_history, last_post_urn, last_post_url, generated_post,
                   post_ready, uploaded_media, media_type, show_success,
                   linkedin_token, user_urn, upload_url, asset_urn, waitvars,
                   calls, wait_end, ret>>

(* lines 1283-1289: the handler after the call returned. *)
PublishReturn ==
    /\ pc = "returned"
    /\ IF ret.ok
       THEN /\ show_success' = TRUE
            /\ post_ready' = FALSE
            /\ generated_post' = <<>>
       ELSE UNCHANGED <<show_success, post_ready, generated_post>>
    /\ pc' = "idle"
    /\ args' = NoArgs
    /\ user_urn' = None
    /\ upload_url' = None
    /\ asset_urn' = None
    /\ processing_success' = "unset"
    /\ calls' = <<>>
    /\ wait_end' = ""
    /\ ret' = NoRet
    /\ UNCHANGED <<gen, helper, deleter, post_history, last_post_urn, last_post_url, uploaded_media,
                   media_type, linkedin_token, deleted_urn,
                   start_time, now, check_count, status>>

(* lines 1332-1340: the delete button of the history entry at index i. *)
DeleteButton(i) ==
    /\ Idle
    /\ Truthy(linkedin_token)
    /\ i \in 1..Len(post_history)
    /\ \E a \in DeleteAnswers :
         LET r == delete_linkedin_post(linkedin_token, post_history[i].urn, a)
         IN  /\ post_history' = IF r.ok
                                 THEN WithoutUrn(post_history, post_history[i].urn)
                                 ELSE post_history
             /\ deleted_urn' = IF r.ok THEN post_history[i].urn ELSE None
    /\ deleter' = NoDeleter
    /\ UNCHANGED <<gen, helper, last_post_urn, last_post_url, generated_post, post_ready,
                   uploaded_media, media_type, show_success, linkedin_token,
                   pc, locals, waitvars, calls, wait_end, ret>>

(* Identifiers are written with the prefix urn:li: shortened to u: . *)
UrnPrefix == <<"u", ":">>

StartsWith(s, prefix) ==
    Len(s) >= Len(prefix) /\ SubSeq(s, 1, Len(prefix)) = prefix

(* What can be typed into the delete-by-URN input. *)
UrnInputs == {<<>>, <<"1">>} \cup PostIds

(* lines 1347-1360: the delete-by-URN input and its button.  The handler   *)
(* reports the outcome and assigns nothing in the session.                 *)
DeleteByUrn(post_urn) ==
    /\ Idle
    /\ IF ~Truthy(post_urn) \/ ~StartsWith(post_urn, UrnPrefix)
       THEN deleter' = NoDeleter
       ELSE \E a \in DeleteAnswers :
                deleter' = IF delete_linkedin_post(linkedin_token, post_urn, a).ok
                           THEN [state |-> "done", handler |-> "by_urn", urn |-> post_urn]
                           ELSE NoDeleter
    /\ deleted_urn' = None
    /\ UNCHANGED <<gen, helper, post_history, last_post_urn, last_post_url,
                   generated_post, post_ready, uploaded_media, media_type,
                   show_success, linkedin_token,
                   pc, locals, waitvars, calls, wait_end, ret>>

(* A rerun of the script in which no handler acts: init_session_state      *)
(* (lines 494-496) assigns only the keys the session lacks, and after the  *)
(* first run it lacks none.                                                *)
Rerun ==
    /\ Idle
    /\ deleted_urn' = None
    /\ deleter' = NoDeleter
    /\ UNCHANGED <<gen, helper, post_history, last_post_urn, last_post_url,
                   generated_post, post_ready, uploaded_media, media_type,
                   show_success, linkedin_token,
                   pc, locals, waitvars, calls, wait_end, ret>>

UiFiles ==
    {NoFile, File(ImageLimitMB * MiB), File(ImageLimitMB * MiB + 1),
     File(VideoLimitMiB * MiB), File(VideoLimitMiB * MiB + 1)}

Init ==
    /\ SessionDefaults
    /\ NoInvocation
    /\ pc = "idle"
    /\ args = NoArgs
    /\ gen = NoGeneration
    /\ helper = NoHelper
    /\ deleter = NoDeleter

Next ==
    \/ \E t \in CallTokens : Initialize(t)
    \/ \E o \in {"text", "image", "video"}, f \in UiFiles : SelectMedia(o, f)
    \/ \E answers \in AgentAnswers : GeneratePost(answers)
    \/ \E t \in UiTexts \cup {<<>>, Whitespace} : EditPost(t)
    \/ ResetButton
    \/ CreateNewPost
    \/ Regenerate
    \/ PublishButton
    \/ PublishStep
    \/ PublishReturn
    \/ \E i \in 1..MaxHistory : DeleteButton(i)
    \/ \E u \in UrnInputs : DeleteByUrn(u)
    \/ Rerun

Spec == Init /\ [][Next]_vars

SpecCallFair == SpecCall /\ WF_vars(PublishStep)

----------------------------------------------------------------------------
(* generate_with_retry called directly: any max_retries up to a bound, and *)
(* an agent that answers each of its calls with a text or a failure.       *)

MaxRetriesBound == 4

AgentOutcomes ==
    {AgentOk(ShortText), AgentOk(<<>>),
     AgentError(RateMsg), AgentError(LimitMsg), AgentError(OtherMsg)}

GenerateCalls ==
    UNION {{[state |-> "called", max_retries |-> n, answers |-> a] :
               a \in [1..n -> AgentOutcomes]} : n \in 0..MaxRetriesBound}

InitRetry ==
    /\ SessionDefaults
    /\ NoInvocation
    /\ pc = "idle"
    /\ args = NoArgs
    /\ gen \in GenerateCalls
    /\ helper = NoHelper
    /\ deleter = NoDeleter

CallGenerate ==
    /\ gen.state = "called"
    /\ gen' = [state |-> "done", max_retries |-> gen.max_retries,
               answers |-> gen.answers,
               result |-> generate_with_retry(gen.answers, gen.max_retries)]
    /\ UNCHANGED <<session, pc, locals, waitvars, calls, wait_end, ret, helper, deleter>>

SpecRetry == InitRetry /\ [][CallGenerate]_vars

----------------------------------------------------------------------------
(* get_linkedin_post_url called directly, with any identifier over an      *)
(* alphabet of reserved and unreserved characters up to a bounded length.  *)

MaxUrnLen == 4

UrnAlphabet == {":", "%", "/", "2", "F", "a"}

Identifiers == UNION {[1..n -> UrnAlphabet] : n \in 0..MaxUrnLen}

InitUrl ==
    /\ SessionDefaults
    /\ NoInvocation
    /\ pc = "idle"
    /\ args = NoArgs
    /\ gen = NoGeneration
    /\ deleter = NoDeleter
    /\ helper \in {[state |-> "called", fn |-> "get_linkedin_post_url", post_urn |-> u] :
                      u \in Identifiers}

CallPostUrl ==
    /\ helper.state = "called"
    /\ helper.fn = "get_linkedin_post_url"
    /\ helper' = [state |-> "done", fn |-> helper.fn, post_urn |-> helper.post_urn,
                  result |-> get_linkedin_post_url(helper.post_urn)]
    /\ UNCHANGED <<session, pc, locals, waitvars, calls, wait_end, ret, gen, deleter>>

SpecUrl == InitUrl /\ [][CallPostUrl]_vars

----------------------------------------------------------------------------
(* The helper functions called directly, each with arguments drawn from a  *)
(* bounded set.                                                            *)

DeleteCalls ==
    {[state |-> "called", fn |-> "delete_linkedin_post",
      access_token |-> t, post_urn |-> u] :
        t \in {<<>>, Token}, u \in {<<>>} \cup PostIds}

(* Post texts of every length up to a few characters past the preview's   *)
(* limit, whose characters past the first run differ from it.              *)
MaxExtra == 4

PostTexts == {Rep("a", i) \o Rep("b", j) : i \in 0..PreviewLen, j \in 0..MaxExtra}

RecordCalls ==
    {[state |-> "called", fn |-> "history_record", post_urn |-> u, text |-> t] :
        u \in PostIds, t \in PostTexts}

ActivityCalls ==
    {[state |-> "called", fn |-> "get_linkedin_activity_url", post_urn |-> u] :
        u \in Identifiers}

(* Video sizes in bytes: each whole number of MiB up to a bound, and the   *)
(* sizes one byte to either side of it.                                    *)
MaxVideoMiB == 201

VideoSizes ==
    {k * MiB + d : k \in 0..MaxVideoMiB, d \in {-1, 0, 1}} \ {-1}

TransferCalls ==
    {[state |-> "called", fn |-> "upload_video_to_linkedin", file_size |-> n] :
        n \in VideoSizes}

HelperCalls == DeleteCalls \cup RecordCalls \cup ActivityCalls \cup TransferCalls

InitHelpers ==
    /\ SessionDefaults
    /\ NoInvocation
    /\ pc = "idle"
    /\ args = NoArgs
    /\ gen = NoGeneration
    /\ deleter = NoDeleter
    /\ helper \in HelperCalls

HelperUnchanged ==
    UNCHANGED <<session, pc, locals, waitvars, calls, wait_end, ret, gen, deleter>>

(* delete_linkedin_post: the DELETE request is made only past the guard of *)
(* lines 596-597.                                                          *)
CallDelete ==
    /\ helper.state = "called"
    /\ helper.fn = "delete_linkedin_post"
    /\ \E a \in DeleteAnswers :
         helper' = [state |-> "done", fn |-> helper.fn,
                    access_token |-> helper.access_token, post_urn |-> helper.post_urn,
                    requests |-> IF Truthy(helper.access_token) /\ Truthy(helper.post_urn)
                                 THEN <<a>> ELSE <<>>,
                    result |-> delete_linkedin_post(helper.access_token,
                                                    helper.post_urn, a)]
    /\ HelperUnchanged

(* The record a create function appends (lines 859-865, 686-692, 821-827). *)
BuildRecord ==
    /\ helper.state = "called"
    /\ helper.fn = "history_record"
    /\ helper' = [state |-> "done", fn |-> helper.fn,
                  post_urn |-> helper.post_urn, text |-> helper.text,
                  result |-> HistoryRecord(helper.post_urn, helper.text, "text")]
    /\ HelperUnchanged

CallActivityUrl ==
    /\ helper.state = "called"
    /\ helper.fn = "get_linkedin_activity_url"
    /\ helper' = [state |-> "done", fn |-> helper.fn, post_urn |-> helper.post_urn,
                  result |-> get_linkedin_activity_url(helper.post_urn)]
    /\ HelperUnchanged

(* upload_video_to_linkedin: the timeout its PUT is made with, and its    *)
(* outcome on the response.                                                *)
CallUploadVideo ==
    /\ helper.state = "called"
    /\ helper.fn = "upload_video_to_linkedin"
    /\ \E a \in PutResponses :
         helper' = [state |-> "done", fn |-> helper.fn, file_size |-> helper.file_size,
                    timeout |-> VideoUploadTimeout(helper.file_size),
                    result |-> upload_to_linkedin(a)]
    /\ HelperUnchanged

NextHelpers ==
    \/ CallDelete
    \/ BuildRecord
    \/ CallActivityUrl
    \/ CallUploadVideo

SpecHelpers == InitHelpers /\ [][NextHelpers]_vars

----------------------------------------------------------------------------
(* Two requests of one session running together: a publish, and the delete *)
(* button of the one entry the history holds.  The handlers take no lock.  *)
(* The delete handler is three steps: the call of delete_linkedin_post     *)
(* (line 1334), the evaluation of the list comprehension over the history  *)
(* (the right-hand side of line 1337) and the assignment of its value to   *)
(* post_history; list.append of the create functions is one step.          *)

FirstUrn == <<"u", ":", "1">>

RaceMedia ==
    {[file |-> NoFile, type |-> ""],
     [file |-> File(ImageLimitMB * MiB), type |-> "image"],
     [file |-> File(VideoLimitMiB * MiB), type |-> "video"]}

InitRace ==
    /\ post_history = <<HistoryRecord(FirstUrn, ShortText, "text")>>
    /\ last_post_urn = None
    /\ last_post_url = None
    /\ generated_post = ShortText
    /\ post_ready = TRUE
    /\ \E m \in RaceMedia :
          /\ uploaded_media = m.file
          /\ media_type = m.type
          /\ args = [access_token |-> Token, text |-> ShortText,
                     media_file |-> m.file, media_type |-> m.type]
    /\ show_success = FALSE
    /\ linkedin_token = Token
    /\ deleted_urn = None
    /\ NoInvocation
    /\ pc = "check_connection"
    /\ gen = NoGeneration
    /\ helper = NoHelper
    /\ deleter = [state |-> "requested", handler |-> "button", urn |-> FirstUrn]

(* line 1334 *)
DeleteCall ==
    /\ deleter.state = "requested"
    /\ \E a \in DeleteAnswers :
         deleter' = IF delete_linkedin_post(linkedin_token, deleter.urn, a).ok
                    THEN [state |-> "deleted", handler |-> "button", urn |-> deleter.urn]
                    ELSE [state |-> "done", handler |-> "button", urn |-> deleter.urn,
                          ok |-> FALSE]
    /\ UNCHANGED <<session, pc, locals, waitvars, calls, wait_end, ret, gen, helper>>

(* line 1337, the comprehension *)
DeleteFilter ==
    /\ deleter.state = "deleted"
    /\ deleter' = [state |-> "filtered", handler |-> "button", urn |-> deleter.urn,
                   kept |-> WithoutUrn(post_history, deleter.urn)]
    /\ UNCHANGED <<session, pc, locals, waitvars, calls, wait_end, ret, gen, helper>>

(* line 1337, the assignment *)
DeleteAssign ==
    /\ deleter.state = "filtered"
    /\ post_history' = deleter.kept
    /\ deleted_urn' = deleter.urn
    /\ deleter' = [state |-> "done", handler |-> "button", urn |-> deleter.urn,
                   ok |-> TRUE]
    /\ UNCHANGED <<last_post_urn, last_post_url, generated_post, post_ready,
                   uploaded_media, media_type, show_success, linkedin_token,
                   pc, locals, waitvars, calls, wait_end, ret, gen, helper>>

NextRace ==
    \/ PublishStep
    \/ DeleteCall
    \/ DeleteFilter
    \/ DeleteAssign

SpecRace == InitRace /\ [][NextRace]_vars

----------------------------------------------------------------------------
(* Properties *)

CallsWhere(Test(_)) == SelectSeq(calls, Test)
Registers == CallsWhere(LAMBDA c : c.op = "register")
Transfers == CallsWhere(LAMBDA c : c.op = "transfer")
Creates == CallsWhere(LAMBDA c : c.op = "create")

Returned == pc = "returned"
RegistrationFailed == \E i \in 1..Len(calls) : calls[i].op = "register" /\ calls[i].result = "failed"
TransferFailed == \E i \in 1..Len(calls) : calls[i].op = "transfer" /\ calls[i].result = "failed"
TransferDone == \E i \in 1..Len(calls) : calls[i].op = "transfer" /\ calls[i].result = "done"
NoPolling == wait_end = "" /\ check_count = 0 /\ processing_success = "unset"

HasMedia == args.media_file # NoFile /\ args.media_type # ""
IsVideo == HasMedia /\ args.media_type = "video"

(* What a publish with no media comes to: one create-post call, category   *)
(* NONE and no asset, whose answer alone decides the value returned and    *)
(* the record appended to the (fresh) session's history.                   *)
TextOnlyPublish ==
    /\ Len(Creates) = 1
    /\ Creates[1].kind = "NONE"
    /\ Creates[1].asset = NoAsset
    /\ calls[Len(calls)].op = "create"
    /\ ret = CreateResult(Creates[1].result)
    /\ post_history = HistoryAfterCreate(<<>>, Creates[1].result, args.text, "text")

(* C1: when the registration of an image or an in-limit video fails, no    *)
(* transfer is made, exactly one create-post call is made, with category   *)
(* NONE, and the value returned is the one a publish with no media         *)
(* returns for that call's answer; a publish with no media that reaches    *)
(* its create-post call obeys the same relation.                           *)
C1_RegistrationFallback ==
    /\ (Returned /\ RegistrationFailed) =>
          /\ Len(Registers) = 1
          /\ Transfers = <<>>
          /\ NoPolling
          /\ TextOnlyPublish
    /\ (Returned /\ ~HasMedia /\ Creates # <<>>) => TextOnlyPublish

C1_Witness ==
    /\ Returned /\ RegistrationFailed /\ IsVideo
    /\ ret.ok /\ Len(post_history) = 1

(* C2: when the byte transfer fails after a registration that succeeded,   *)
(* for image and video alike, exactly one create-post call is made, with   *)
(* category NONE and no asset, no status check is made, and that call's    *)
(* result is returned.                                                     *)
C2_TransferFallback ==
    (Returned /\ TransferFailed) =>
        /\ Len(Transfers) = 1
        /\ Len(Registers) = 1 /\ Registers[1].result = "done"
        /\ NoPolling
        /\ TextOnlyPublish

C2_Witness ==
    /\ Returned /\ TransferFailed /\ IsVideo
    /\ ret.ok /\ Len(post_history) = 1 /\ post_history[1].type = "text"

(* C3: a video is rejected for its size exactly when it is longer than     *)
(* 200*1024*1024 bytes: such a publish returns Failure with no             *)
(* registration, transfer, status or create-post call, and a video of      *)
(* exactly 200 MiB whose author was resolved goes on to registration.      *)
C3_VideoSizeLimit ==
    Returned =>
        /\ (IsVideo /\ args.media_file.size > VideoLimitMiB * MiB) =>
              /\ ~ret.ok
              /\ Registers = <<>> /\ Transfers = <<>> /\ Creates = <<>>
              /\ NoPolling
              /\ Truthy(user_urn) => ret = Failure(VideoTooLarge)
        /\ (ret = Failure(VideoTooLarge)) =>
              (IsVideo /\ args.media_file.size > VideoLimitMiB * MiB)
        /\ (IsVideo /\ args.media_file.size <= VideoLimitMiB * MiB /\ Truthy(user_urn)) =>
              (Len(Registers) = 1 /\ Registers[1].kind = "video")

C3_Witness ==
    /\ Returned /\ IsVideo
    /\ args.media_file.size = VideoLimitMiB * MiB + 1
    /\ ret = Failure(VideoTooLarge)

(* C4: after a video transfer that succeeded, exactly one create-post      *)
(* call is made, with category VIDEO and the asset of the registration,    *)
(* however the wait ended (AVAILABLE, ERROR or the deadline), and its      *)
(* answer alone decides the value returned and the record appended.        *)
C4_WaitDoesNotGate ==
    (Returned /\ IsVideo /\ TransferDone) =>
        /\ wait_end \in {"AVAILABLE", "ERROR", "TIMED_OUT"}
        /\ Len(Creates) = 1
        /\ Creates[1].kind = "VIDEO"
        /\ Creates[1].asset = asset_urn
        /\ calls[Len(calls)].op = "create"
        /\ ret = CreateResult(Creates[1].result)
        /\ post_history = HistoryAfterCreate(<<>>, Creates[1].result, args.text, "video")

C4_Witness ==
    /\ Returned /\ IsVideo /\ TransferDone
    /\ wait_end = "TIMED_OUT" /\ ret.ok /\ Len(post_history) = 1

(* C5 as claimed: at the deadline wait_for_video_processing returns a      *)
(* value that differs from the one it returns for AVAILABLE.               *)
C5_TimeoutSignalDiffers ==
    (wait_end = "TIMED_OUT") => processing_success # WaitReturn("AVAILABLE")

(* C5 as amended: the wait ends in one of three ways, AVAILABLE, ERROR or  *)
(* the deadline; it returns True for AVAILABLE and at the deadline alike,  *)
(* and False for ERROR only.                                               *)
C5_TimeoutReturnsTrue ==
    /\ wait_end \in {"", "AVAILABLE", "ERROR", "TIMED_OUT"}
    /\ (wait_end \in {"AVAILABLE", "TIMED_OUT"}) => processing_success = "True"
    /\ (wait_end = "ERROR") => processing_success = "False"
    /\ (wait_end = "") => processing_success = "unset"

C5_Witness == wait_end = "TIMED_OUT" /\ pc = "create_video"

(* C6: a status check of the poll loop has one of three effects: AVAILABLE *)
(* ends the wait with True, ERROR ends it with False, anything else keeps  *)
(* the loop polling; once the wait has ended, with AVAILABLE or ERROR or   *)
(* otherwise, the invocation makes no further status check.                *)
C6_PollEffects ==
    [][ /\ (pc = "wait_video" /\ Waiting(start_time, now, MaxWait)) =>
              \/ /\ wait_end' = "AVAILABLE" /\ processing_success' = "True"
                 /\ pc' = "create_video"
              \/ /\ wait_end' = "ERROR" /\ processing_success' = "False"
                 /\ pc' = "create_video"
              \/ /\ pc' = "wait_video" /\ wait_end' = ""
                 /\ status' \notin {"AVAILABLE", "ERROR"}
                 /\ check_count' = check_count + 1
                 /\ processing_success' = "unset"
        /\ (wait_end # "") => (pc' # "wait_video" /\ check_count' = 0)
      ]_vars

C6_Witness == pc = "wait_video" /\ check_count > 1 /\ status = "PROCESSING"

(* C7: whatever the collaborators answer, post_to_linkedin_with_media      *)
(* never raises, each of its steps can be taken, its poll loop is bounded, *)
(* and it ends having returned exactly one of Success (with the response   *)
(* object) or Failure (with a reason).                                     *)
C7_WellFormed ==
    /\ ret.state \in {"pending", "returned"}
    /\ Returned <=> (ret.state = "returned")
    /\ Returned =>
          /\ ret.ok \in BOOLEAN
          /\ ret.ok => ret.value.json = "dict"
          /\ ~ret.ok => ret.value.reason \in
                {ConnectionFailed.reason, ProfileFailed.reason, VideoTooLarge.reason,
                 "Failed", Raised.reason}
    /\ ~Returned => ENABLED PublishStep
    /\ check_count * PollInterval <= now - start_time
    /\ check_count * PollInterval < MaxWait + PollInterval

C7_AlwaysReturns == []C7_WellFormed /\ <>Returned

C7_Witness == Returned /\ ret = Failure(Raised) /\ Len(Creates) = 1 /\ HasMedia

(* C8 as claimed: a publish that returns Success has created a post whose  *)
(* identifier is not empty.                                                *)
C8_SuccessHasIdentifier ==
    (Returned /\ ret.ok) => (ret.value.id # Missing /\ Truthy(ret.value.id))

(* C9 as claimed: a publish that returns Success appends exactly one       *)
(* record to the history, and one that returns Failure appends none.       *)
C9_SuccessAppendsOne ==
    [][ (pc # "returned" /\ pc' = "returned") =>
            IF ret'.ok
            THEN /\ Len(post_history') = Len(post_history) + 1
                 /\ SubSeq(post_history', 1, Len(post_history)) = post_history
            ELSE post_history' = post_history
      ]_vars

DeleteSucceeded == pc = "idle" /\ pc' = "idle" /\ post_history' # post_history

KeptAfter(history, urn) == SelectSeq(history, LAMBDA p : p.urn # urn)

DistinctUrns(history) ==
    \A i, j \in 1..Len(history) : history[i].urn = history[j].urn => i = j

RECURSIVE PostsOnServer(_)
PostsOnServer(log) ==
    IF log = <<>> THEN 0
    ELSE (IF Head(log).op = "create" THEN Head(log).posted ELSE 0)
         + PostsOnServer(Tail(log))

(* C11 as claimed: one invocation of publish creates at most one post on   *)
(* the server, also when the adapter retries the create-post POST after an *)
(* answer of the force list or a transport error.                          *)
C11_AtMostOnePost == PostsOnServer(calls) <= 1

Identities == CallsWhere(LAMBDA c : c.op = "identity")

(* C12: an invocation makes at most one create-post call, that call is the *)
(* last call of the invocation (the invocation has returned as soon as it  *)
(* is made, so no status check follows it either), and when a registration *)
(* or transfer failure has been detected and the fallback is about to      *)
(* start, no create-post call has been made.                               *)
C12_OneCreateLast ==
    /\ Len(Creates) <= 1
    /\ \A i \in 1..Len(calls) : calls[i].op = "create" => i = Len(calls)
    /\ Creates # <<>> => Returned
    /\ (~Returned /\ (RegistrationFailed \/ TransferFailed)) =>
          (pc = "create_text" /\ Creates = <<>>)

C12_Witness ==
    /\ Returned /\ TransferFailed
    /\ Len(Creates) = 1 /\ calls[Len(calls)].op = "create" /\ Len(calls) > 4

(* C13: a create-post call of category IMAGE or VIDEO comes after the one  *)
(* registration of the invocation, which succeeded, and after the one      *)
(* transfer, which succeeded and went to the upload target that            *)
(* registration returned; it carries the asset that registration returned. *)
(* A create-post call of category NONE carries no asset.                   *)
C13_MediaPostComplete ==
    \A i \in 1..Len(calls) :
        (calls[i].op = "create") =>
            IF calls[i].kind \in {"IMAGE", "VIDEO"}
            THEN /\ i >= 3
                 /\ Len(Registers) = 1 /\ Len(Transfers) = 1
                 /\ calls[i - 2] = Registers[1] /\ Registers[1].result = "done"
                 /\ calls[i - 1] = Transfers[1] /\ Transfers[1].result = "done"
                 /\ Registers[1].kind = Transfers[1].kind
                 /\ calls[i].kind = (IF Registers[1].kind = "image" THEN "IMAGE" ELSE "VIDEO")
                 /\ Truthy(upload_url) /\ Transfers[1].asset = upload_url
                 /\ calls[i].asset = asset_urn
            ELSE calls[i].kind = "NONE" /\ calls[i].asset = NoAsset

C13_Witness ==
    /\ Returned /\ Len(Creates) = 1
    /\ Creates[1].kind = "IMAGE" /\ Creates[1].asset = Asset1
    /\ ret.ok /\ Len(post_history) = 1

MediaCreateFailed ==
    /\ Returned /\ ~ret.ok /\ Creates # <<>>
    /\ Creates[1].kind \in {"IMAGE", "VIDEO"}

(* C14 as claimed: when the create-post call of the image or video path    *)
(* fails, the Failure returned carries the HTTP status and the body of     *)
(* that call's response, and no text-only create-post call is made.        *)
C14_FailureCarriesStatus ==
    MediaCreateFailed =>
        /\ Len(Creates) = 1
        /\ Creates[1].result.kind = "http"
        /\ ret.value = [reason |-> "Failed", status |-> Creates[1].result.status,
                                             text |-> Creates[1].result.body]

(* C14 as amended: when the create-post call of the image or video path    *)
(* fails, no text-only create-post call is made and the Failure of that    *)
(* call is returned; its reason carries the status and body of the         *)
(* response when the call was answered with a status other than 200/201,   *)
(* and the text of the exception when the call raised (a transport error,  *)
(* retries used up, a 200/201 answer whose body is not a JSON object).     *)
C14_FailurePropagates ==
    MediaCreateFailed =>
        /\ Len(Creates) = 1
        /\ calls[Len(calls)] = Creates[1]
        /\ LET resp == Creates[1].result
           IN  IF resp.kind = "http" /\ resp.status \notin {200, 201}
               THEN ret.value = [reason |-> "Failed", status |-> resp.status,
                                                     text |-> resp.body]
               ELSE ret.value = [reason |-> "str(e)"]

C14_Witness ==
    /\ MediaCreateFailed /\ Creates[1].kind = "VIDEO"
    /\ ret.value.reason = "Failed" /\ ret.value.status = 401

ConnectionOk(resp) == resp.kind = "http" /\ resp.status = 200

(* C15: when the connectivity check is answered with a status other than   *)
(* 200 or ends in a transport error, the invocation returns                *)
(* Failure(connection failed) at once: the connectivity call is its only   *)
(* call, with no identity, registration, transfer, status or create-post   *)
(* call; and it goes past the check only on a 200.                         *)
C15_ConnectionGate ==
    /\ \A i \in 1..Len(calls) :
          (calls[i].op = "connection" /\ ~ConnectionOk(calls[i].result)) =>
              /\ Returned /\ ret = Failure(ConnectionFailed)
              /\ Len(calls) = 1
              /\ NoPolling
    /\ (pc # "check_connection" /\ ret # Failure(ConnectionFailed)) =>
          (calls # <<>> /\ calls[1].op = "connection" /\ ConnectionOk(calls[1].result))

C15_Witness ==
    /\ Returned /\ ret = Failure(ConnectionFailed)
    /\ Len(calls) = 1 /\ calls[1].op = "connection" /\ calls[1].result.kind = "exc"

(* C16: every registration and every create-post call is made with an      *)
(* author identity built from a non-empty account identifier; when neither *)
(* identity endpoint yields one the invocation returns                     *)
(* Failure(could not resolve profile) having asked both endpoints and made *)
(* no registration, transfer or create-post call.                          *)
C16_AuthorResolved ==
    /\ (Registers # <<>> \/ Creates # <<>> \/ pc \notin {"check_connection", "get_profile", "returned"}) =>
          (Truthy(user_urn) /\ user_urn = PersonUrn(UserId))
    /\ (pc \notin {"check_connection", "get_profile"} /\ ret # Failure(ConnectionFailed)
        /\ user_urn # PersonUrn(UserId)) =>
          /\ Returned /\ ret = Failure(ProfileFailed)
          /\ user_urn = None
          /\ Len(Identities) = 2 /\ calls[Len(calls)].kind = "me"
          /\ Registers = <<>> /\ Transfers = <<>> /\ Creates = <<>>
          /\ NoPolling

C16_Witness ==
    /\ Returned /\ ret = Failure(ProfileFailed)
    /\ Len(calls) = 3 /\ Registers = <<>> /\ Creates = <<>>

Generated == gen.state = "done"

(* The failures classified as rate limiting that open the agent's answers. *)
RECURSIVE LeadingRateLimits(_)
LeadingRateLimits(answers) ==
    IF Len(answers) = 0 THEN 0
    ELSE IF answers[1].kind = "error"
            /\ answers[1].msg \in {RateMsg, LimitMsg}
         THEN 1 + LeadingRateLimits(SubSeq(answers, 2, Len(answers)))
         ELSE 0

Backoff(k) == [i \in 1..k |-> 2 ^ (i - 1)]

(* C17: for max_retries >= 1 and an agent that fails k times in a row      *)
(* with a rate-limit failure: when k < max_retries and call k+1 succeeds,  *)
(* the text is returned after exactly k+1 agent calls and the sleeps       *)
(* 1, 2, ..., 2^(k-1) in that order; when k >= max_retries the failure of  *)
(* call max_retries propagates after exactly max_retries agent calls and   *)
(* the sleeps 1, ..., 2^(max_retries-2), none after the last failure.      *)
C17_BackoffSchedule ==
    (Generated /\ gen.max_retries >= 1) =>
        LET k == LeadingRateLimits(gen.answers)
            n == gen.max_retries
            r == gen.result
        IN  /\ (k < n /\ gen.answers[k + 1].kind = "ok") =>
                  /\ r.kind = "return"
                  /\ r.value = gen.answers[k + 1].content
                  /\ r.agent_calls = k + 1
                  /\ r.sleeps = Backoff(k)
            /\ (k >= n) =>
                  /\ r.kind = "raise"
                  /\ r.value = gen.answers[n].msg
                  /\ r.agent_calls = n
                  /\ r.sleeps = Backoff(n - 1)

C17_Witness ==
    /\ Generated /\ gen.max_retries = 3
    /\ gen.answers = <<AgentError(RateMsg), AgentError(LimitMsg), AgentOk(ShortText)>>
    /\ gen.result.kind = "return" /\ gen.result.value = ShortText
    /\ gen.result.sleeps = <<1, 2>>

(* C18: a failure of the agent that is not classified as rate limiting     *)
(* propagates at once, on whichever attempt it occurs: it is the last      *)
(* agent call, and no sleep follows it (the sleeps are those of the        *)
(* rate-limit failures before it).                                         *)
C18_OtherFailurePropagates ==
    Generated =>
        LET k == LeadingRateLimits(gen.answers)
            r == gen.result
        IN  (k < gen.max_retries /\ gen.answers[k + 1] = AgentError(OtherMsg)) =>
                /\ r.kind = "raise"
                /\ r.value = OtherMsg
                /\ r.agent_calls = k + 1
                /\ r.sleeps = Backoff(k)

C18_Witness ==
    /\ Generated /\ gen.max_retries = 3
    /\ gen.answers[1] = AgentError(RateMsg) /\ gen.answers[2] = AgentError(OtherMsg)
    /\ gen.result.kind = "raise" /\ gen.result.agent_calls = 2
    /\ gen.result.sleeps = <<1>>

(* C19 as claimed: called with an empty text, publish makes no create-post *)
(* call and returns Failure.                                               *)
C19_EmptyTextRejected ==
    (args.text = <<>>) =>
        /\ Creates = <<>>
        /\ Returned => ~ret.ok

OversizeImage ==
    /\ args.media_type = "image"
    /\ args.media_file # NoFile
    /\ args.media_file.size > ImageLimitMB * MiB

(* C20 as claimed: for an image larger than 10 MiB publish makes no        *)
(* registration and no transfer call, and returns Failure.                 *)
C20_OversizeImageRejected ==
    OversizeImage =>
        /\ Registers = <<>> /\ Transfers = <<>>
        /\ Returned => ~ret.ok

OversizeVideo == IsVideo /\ args.media_file.size > VideoLimitMiB * MiB

(* C21 as claimed: a publish of a video longer than 200 MiB is rejected    *)
(* before any network call: it makes no connectivity, identity,            *)
(* registration, transfer, status or create-post call and returns the      *)
(* size Failure.                                                           *)
C21_OversizeVideoNoCalls ==
    OversizeVideo =>
        /\ calls = <<>>
        /\ NoPolling
        /\ Returned => ret = Failure(VideoTooLarge)

(* C22 as claimed: when a publish has returned Success, last_post_urn is   *)
(* the identifier the create-post call returned, last_post_url is the feed *)
(* prefix followed by that identifier percent-encoded, and the two are the *)
(* urn and url of the last record of the history.                          *)
C22_LastPublishedMatches ==
    (Returned /\ ret.ok) =>
        /\ ret.value.id # Missing
        /\ last_post_urn = ret.value.id
        /\ last_post_url = FeedPrefix \o quote(last_post_urn)
        /\ post_history # <<>>
        /\ post_history[Len(post_history)].urn = last_post_urn
        /\ post_history[Len(post_history)].url = last_post_url

(* Percent-decoding: %XX stands for the character coded XX. *)
Decoded(h1, h2) ==
    CASE <<h1, h2>> = <<"3", "A">> -> ":"
      [] <<h1, h2>> = <<"2", "F">> -> "/"
      [] <<h1, h2>> = <<"2", "5">> -> "%"
      [] <<h1, h2>> = <<"2", "0">> -> " "
      [] OTHER -> "?"

RECURSIVE Unquote(_)
Unquote(s) ==
    IF s = <<>> THEN <<>>
    ELSE IF Head(s) = "%" /\ Len(s) >= 3
         THEN <<Decoded(s[2], s[3])>> \o Unquote(SubSeq(s, 4, Len(s)))
         ELSE <<Head(s)>> \o Unquote(Tail(s))

UrlDone == helper.state = "done" /\ helper.fn = "get_linkedin_post_url"

(* C23: get_linkedin_post_url reads nothing but its argument and changes   *)
(* nothing; for a non-empty identifier its result is the fixed prefix      *)
(* followed by a path segment in which no reserved character stands for    *)
(* itself and whose percent-decoding is the identifier; for the empty      *)
(* identifier it is None.                                                  *)
C23_UrlRoundTrip ==
    UrlDone =>
        /\ SessionDefaults /\ NoInvocation
        /\ IF helper.post_urn = <<>> THEN helper.result = None
           ELSE /\ Head(helper.result) = "https://www.linkedin.com/feed/update/"
                /\ Unquote(Tail(helper.result)) = helper.post_urn
                /\ \A i \in 2..Len(helper.result) : helper.result[i] \notin {":", "/", " "}

C23_Witness ==
    /\ UrlDone
    /\ helper.post_urn = <<"%", "2", "F", ":">>
    /\ helper.result = FeedPrefix \o <<"%", "2", "5", "2", "F", "%", "3", "A">>

Elapsed == now - start_time
InWait == pc = "wait_video"
ChecksAStatus == InWait /\ (check_count' = check_count + 1 \/ wait_end' \in {"AVAILABLE", "ERROR"})

(* C24: with the clock advancing (a sleep lasts its 3 seconds, a check     *)
(* takes no less than no time), the wait of max_wait = 120 seconds         *)
(* terminates; it starts a status check only while less than 120 seconds   *)
(* have elapsed, makes at most ceil(120/3) = 40 checks and at least one,   *)
(* and ends TIMED_OUT exactly when the deadline is reached with no check   *)
(* having observed AVAILABLE or ERROR.                                     *)
C24_WaitTerminates ==
    /\ [](InWait =>
            /\ check_count <= 40
            /\ check_count <= (120 + 3 - 1) \div 3
            /\ check_count * 3 <= Elapsed
            /\ status \notin {"AVAILABLE", "ERROR"})
    /\ [][ /\ ChecksAStatus => (Elapsed < 120 /\ check_count + 1 <= 40)
           /\ (InWait /\ Elapsed >= 120) => (wait_end' = "TIMED_OUT" /\ pc' = "create_video")
           /\ (InWait /\ wait_end' = "TIMED_OUT") => (Elapsed >= 120 /\ check_count >= 1)
           /\ (InWait /\ pc' # "wait_video") =>
                 wait_end' \in {"AVAILABLE", "ERROR", "TIMED_OUT"}
         ]_vars
    /\ (InWait ~> (pc = "create_video"))

C24_Witness == InWait /\ check_count = 40 /\ Elapsed >= 120

RecordedKind(category) ==
    CASE category = "IMAGE" -> "image"
      [] category = "VIDEO" -> "video"
      [] category = "NONE" -> "text"

(* C25: the type of the record a publish appends is the media category of  *)
(* its create-post call, so a publish given an image or a video that fell  *)
(* back to text only after a failed registration or transfer records       *)
(* 'text'.                                                                 *)
C25_RecordedKind ==
    (Returned /\ post_history # <<>>) =>
        /\ Len(post_history) = 1 /\ Len(Creates) = 1
        /\ post_history[1].type = RecordedKind(Creates[1].kind)
        /\ (RegistrationFailed \/ TransferFailed) => post_history[1].type = "text"

C25_Witness ==
    /\ Returned /\ RegistrationFailed
    /\ args.media_type = "image"
    /\ Len(post_history) = 1 /\ post_history[1].type = "text"

LastPublishedKept ==
    /\ post_history' = post_history
    /\ last_post_urn' = last_post_urn
    /\ last_post_url' = last_post_url

InPublish == pc \notin {"idle", "returned"}

(* C26: a publish that returns Failure has left the history, last_post_urn *)
(* and last_post_url as they were when the handler called it (none of its  *)
(* steps before the return changes them, and neither does the return), and *)
(* the handler then leaves generated_post and post_ready as they were: the *)
(* draft is still the text that was published and is still ready.          *)
C26_FailureLeavesState ==
    [][ /\ (pc = "idle" /\ pc' # "idle") => LastPublishedKept
        /\ (InPublish /\ pc' # "returned") => LastPublishedKept
        /\ (InPublish /\ pc' = "returned" /\ ~ret'.ok) => LastPublishedKept
        /\ (pc = "returned" /\ ~ret.ok) =>
              /\ pc' = "idle"
              /\ LastPublishedKept
              /\ generated_post' = generated_post /\ post_ready' = post_ready
              /\ generated_post' = args.text /\ post_ready'
              /\ show_success' = show_success
      ]_vars

C26_Witness ==
    /\ pc = "returned" /\ ~ret.ok /\ Creates # <<>>
    /\ Len(post_history) = 1
    /\ post_ready /\ generated_post = args.text

(* C27: an invocation makes at most one registration call and at most one *)
(* transfer call; the transfer comes right after the registration, which   *)
(* succeeded, and goes to the upload target that registration returned;    *)
(* a transfer that failed is not made again: the next call, if any, is the *)
(* text-only create-post call.                                             *)
C27_OneRegistrationOneTransfer ==
    /\ Len(Registers) <= 1
    /\ Len(Transfers) <= 1
    /\ \A i \in 1..Len(calls) :
          (calls[i].op = "transfer") =>
              /\ i >= 2
              /\ calls[i - 1].op = "register"
              /\ calls[i - 1].result = "done"
              /\ calls[i - 1].kind = calls[i].kind
              /\ Truthy(upload_url) /\ calls[i].asset = upload_url
              /\ (calls[i].result = "failed") =>
                    /\ pc \in {"create_text", "returned"}
                    /\ i < Len(calls) =>
                          (calls[i + 1].op = "create" /\ calls[i + 1].kind = "NONE")

C27_Witness ==
    /\ pc = "create_text" /\ TransferFailed
    /\ Len(Registers) = 1 /\ Len(Transfers) = 1
    /\ calls[Len(calls)].op = "transfer" /\ calls[Len(calls)].asset = UploadUrl

AppendedOne ==
    /\ pc \in {"create_text", "create_image", "create_video"}
    /\ pc' = "returned" /\ ret'.ok
    /\ Len(post_history') = Len(post_history) + 1
    /\ SubSeq(post_history', 1, Len(post_history)) = post_history
    /\ post_history'[Len(post_history')].urn = ret'.value.id

FilteredByDelete ==
    /\ pc = "idle" /\ pc' = "idle"
    /\ deleted_urn' # None
    /\ \E i \in 1..Len(post_history) : post_history[i].urn = deleted_urn'
    /\ post_history' = KeptAfter(post_history, deleted_urn')

(* C28: the history changes only by the append of a create-post call that *)
(* succeeded, which leaves the earlier records as they were, or by the     *)
(* filter of a history delete that succeeded, which leaves the records it  *)
(* keeps as they were; every other step leaves it unchanged, among them    *)
(* reset_post_state, a rerun, a failed delete and the delete-by-URN        *)
(* handler.                                                                *)
C28_HistoryFrame ==
    [][ /\ (post_history' # post_history) => (AppendedOne \/ FilteredByDelete)
        /\ (deleter'.state = "done") => post_history' = post_history
        /\ (pc = "idle" /\ pc' = "idle" /\ deleted_urn' = None) =>
              post_history' = post_history
      ]_vars

C28_Witness ==
    /\ pc = "idle" /\ Len(post_history) = 1
    /\ ~show_success /\ ~post_ready
    /\ last_post_urn = None /\ last_post_url = None

HistoryHas(urn) == \E i \in 1..Len(post_history) : post_history[i].urn = urn

(* C30 as claimed: once a delete made through the page has succeeded, by   *)
(* the delete button of a history entry or by the delete-by-URN input, the *)
(* history holds no record with the deleted identifier.                    *)
C30_DeletedNotInHistory ==
    /\ (deleted_urn # None) => ~HistoryHas(deleted_urn)
    /\ (deleter.state = "done" /\ deleter.handler = "by_urn") => ~HistoryHas(deleter.urn)

BothFinished == Returned /\ deleter.state = "done"

DeleteDone == helper.state = "done" /\ helper.fn = "delete_linkedin_post"

(* C31: delete_linkedin_post returns success exactly when the DELETE       *)
(* response has status 200 or 204; status 404, 403, any other status and   *)
(* a transport exception each return failure with a reason; with an empty  *)
(* token or an empty identifier it returns failure and no request is made; *)
(* every outcome is a returned pair, never an exception.                   *)
C31_DeleteOutcome ==
    DeleteDone =>
        LET r == helper.result
            q == helper.requests
        IN  /\ r.ok \in BOOLEAN
            /\ (~Truthy(helper.access_token) \/ ~Truthy(helper.post_urn)) =>
                   (q = <<>> /\ ~r.ok)
            /\ (Truthy(helper.access_token) /\ Truthy(helper.post_urn)) => Len(q) = 1
            /\ r.ok <=> (q # <<>> /\ q[1].kind = "http" /\ q[1].status \in {200, 204})
            /\ ~r.ok => r.msg # ""

C31_Witness ==
    /\ DeleteDone /\ helper.access_token = Token
    /\ helper.requests # <<>> /\ helper.requests[1].kind = "http"
    /\ helper.requests[1].status = 403
    /\ ~helper.result.ok

(* C32 as claimed: generate_with_retry either returns a text of the agent  *)
(* or raises; it never returns without a text value, whatever max_retries  *)
(* (0 included) and whatever the agent does.                               *)
C32_TextOrRaise ==
    Generated => (gen.result.kind = "raise" \/ gen.result.value # None)

RecordBuilt == helper.state = "done" /\ helper.fn = "history_record"

(* C33: the text preview stored in a history record is the whole post text *)
(* when the text has at most 100 characters, and otherwise its first 100   *)
(* characters followed by '...'; it is never longer than 103 characters.   *)
C33_PreviewOfText ==
    RecordBuilt =>
        LET t == helper.text
            p == helper.result.text
        IN  /\ Len(t) <= 100 => p = t
            /\ Len(t) > 100 =>
                   /\ Len(p) = 103
                   /\ \A i \in 1..100 : p[i] = t[i]
                   /\ \A i \in 101..103 : p[i] = "."
            /\ Len(p) <= 103

C33_Witness ==
    /\ RecordBuilt /\ Len(helper.text) = 102
    /\ helper.text[101] = "b"
    /\ Len(helper.result.text) = 103 /\ helper.result.text[101] = "."

UnusableMedia ==
    \/ args.media_file # NoFile /\ args.media_type \notin {"image", "video"}
    \/ args.media_file = NoFile /\ args.media_type # ""

(* C34: an invocation given a payload whose kind is missing or is neither  *)
(* 'image' nor 'video', or a kind with no payload, makes no registration,  *)
(* transfer or status call; once the connection check and the identity     *)
(* lookup have passed it makes one text-only create-post call and returns  *)
(* the result of that call, not a Failure of its own for the media.        *)
C34_UnusableMediaTextOnly ==
    UnusableMedia =>
        /\ Registers = <<>> /\ Transfers = <<>> /\ NoPolling
        /\ (Returned /\ Truthy(user_urn)) =>
               /\ Len(Creates) = 1
               /\ Creates[1].kind = "NONE" /\ Creates[1].asset = NoAsset
               /\ ret = CreateResult(Creates[1].result)
               /\ ret # Failure(VideoTooLarge)

C34_Witness ==
    /\ Returned /\ args.media_file # NoFile /\ args.media_type = "audio"
    /\ Len(Creates) = 1 /\ Creates[1].kind = "NONE" /\ ret.ok

(* C35: an invocation with an empty access token returns                  *)
(* Failure(connection failed) at its first step, having made no network    *)
(* call of any kind.                                                       *)
C35_EmptyTokenNoCall ==
    (args.access_token = <<>>) =>
        /\ calls = <<>> /\ NoPolling
        /\ pc # "check_connection" =>
               (Returned /\ ret = Failure(ConnectionFailed))

C35_Witness ==
    /\ args.access_token = <<>> /\ args.text = ShortText
    /\ Returned /\ ret = Failure(ConnectionFailed) /\ calls = <<>>

ActivityDone == helper.state = "done" /\ helper.fn = "get_linkedin_activity_url"

(* C36: get_linkedin_activity_url returns no URL for an empty identifier,  *)
(* and otherwise the fixed activity template followed by the part of the   *)
(* identifier after its last colon: the whole identifier when it has no    *)
(* colon.  The result is determined by the identifier alone.               *)
C36_ActivityUrl ==
    ActivityDone =>
        LET u == helper.post_urn
            r == helper.result
        IN  IF u = <<>> THEN r = None
            ELSE \E k \in 0..Len(u) :
                    LET seg == SubSeq(u, k + 1, Len(u))
                    IN  /\ \A i \in 1..Len(seg) : seg[i] # ":"
                        /\ k = 0 \/ u[k] = ":"
                        /\ r = <<"https://www.linkedin.com/feed/update/urn:li:activity:">> \o seg

C36_Witness ==
    /\ ActivityDone /\ helper.post_urn = <<"a", ":", "2", "F">>
    /\ helper.result = ActivityPrefix \o <<"2", "F">>

VideoPutDone == helper.state = "done" /\ helper.fn = "upload_video_to_linkedin"

(* C37: the timeout of a video byte transfer is max(300, floor(5 * size in *)
(* MiB)) seconds: never below 300, equal to 300 for every size up to       *)
(* 60 MiB, and at most 1000 for every video publish accepts (at most       *)
(* 200 MiB).                                                               *)
C37_VideoTimeout ==
    VideoPutDone =>
        LET n == helper.file_size
            t == helper.timeout
        IN  /\ t >= 300
            /\ t > 300 => (t * 1048576 <= 5 * n /\ 5 * n < (t + 1) * 1048576)
            /\ t = 300 => 5 * n < 301 * 1048576
            /\ n <= 60 * 1048576 => t = 300
            /\ ~VideoTooBig(n) => (n <= 200 * 1048576 /\ t <= 1000)

C37_Witness ==
    /\ VideoPutDone /\ helper.file_size = 200 * 1048576
    /\ ~VideoTooBig(helper.file_size) /\ helper.timeout = 1000

====
